---- MODULE Spec2Model ----
(***************************************************************************)
(* Model of the /api/vapi-assistant route handler (POST) of the           *)
(* AI-Powered-Interview-Assistant repository.                              *)
(*                                                                         *)
(* Text is modelled as a sequence of characters, each a one-character      *)
(* string.  A multi-letter token such as "What is X" or "Go" stands for a  *)
(* run of letters with interior blanks: it starts with a letter, ends      *)
(* with a letter or a digit and holds no quote, comma, bracket, colon or   *)
(* line break, so every regular expression of the handler treats it as it  *)
(* treats one letter.  The token "null" is the JSON literal.               *)
(* The digit 0, the backslash and the letters e and E never occur next to  *)
(* digits, so a JSON number is its own decimal rendering and a JSON string *)
(* has no escapes.                                                         *)
(***************************************************************************)
EXTENDS Integers, Sequences, FiniteSets, TLC

\* ------------------------------------------------------------------------
\* Characters

LF == "\n"
CR == "\r"
TAB == "\t"
SP == " "
DQ == "\""
SQ == "'"

Whitespace == {SP, LF, CR, TAB}
Digits == {"1", "2", "3", "4", "5", "6", "7", "8", "9"}

\* ------------------------------------------------------------------------
\* JavaScript values: every value is a record [t, v].

Undefined == [t |-> "undefined", v |-> <<>>]
Null == [t |-> "null", v |-> <<>>]
Str(s) == [t |-> "str", v |-> s]
Num(s) == [t |-> "num", v |-> s]
Arr(s) == [t |-> "arr", v |-> s]
Obj(s) == [t |-> "obj", v |-> s]

\* Boolean(x) for the values above: what if (x), x && y and filter(Boolean) test.
Truthy(x) ==
    CASE x.t = "undefined" -> FALSE
      [] x.t = "null" -> FALSE
      [] x.t = "str" -> x.v # <<>>
      [] OTHER -> TRUE

\* ------------------------------------------------------------------------
\* String.prototype.trim and the strip of a leading and a trailing run of
\* characters of a class, as /^[...]+|[...]+$/g does.

RECURSIVE DropLeading(_, _)
DropLeading(s, class) ==
    IF s # <<>> /\ Head(s) \in class THEN DropLeading(Tail(s), class) ELSE s

RECURSIVE DropTrailing(_, _)
DropTrailing(s, class) ==
    IF s # <<>> /\ s[Len(s)] \in class
    THEN DropTrailing(SubSeq(s, 1, Len(s) - 1), class)
    ELSE s

StripClass(s, class) == DropTrailing(DropLeading(s, class), class)

Trim(s) == StripClass(s, Whitespace)

\* s.split(",")
FirstIndex(s, c) ==
    IF \E i \in 1..Len(s) : s[i] = c
    THEN CHOOSE k \in 1..Len(s) : s[k] = c /\ \A j \in 1..(k - 1) : s[j] # c
    ELSE 0

RECURSIVE SplitComma(_)
SplitAt(s, i) ==
    IF i = 0 THEN <<s>>
    ELSE <<SubSeq(s, 1, i - 1)>> \o SplitComma(SubSeq(s, i + 1, Len(s)))

SplitComma(s) == SplitAt(s, FirstIndex(s, ","))

RECURSIVE JoinComma(_)
JoinComma(ss) ==
    IF ss = <<>> THEN <<>>
    ELSE IF Len(ss) = 1 THEN ss[1]
    ELSE ss[1] \o <<",">> \o JoinComma(Tail(ss))

\* ------------------------------------------------------------------------
\* JSON.parse, on the JSON grammar over the characters of the model:
\* whitespace, arrays, objects, strings without escapes, numbers without
\* exponent, and the literal null.  A result is [ok, val, next]; next is
\* the position after the value.

ParseFail == [ok |-> FALSE, val |-> Undefined, next |-> 0]
ParseOk(v, n) == [ok |-> TRUE, val |-> v, next |-> n]

At(s, i) == IF i \in 1..Len(s) THEN s[i] ELSE "<eof>"

RECURSIVE SkipWS(_, _)
SkipWS(s, i) == IF At(s, i) \in Whitespace THEN SkipWS(s, i + 1) ELSE i

RECURSIVE DigitsEnd(_, _)
DigitsEnd(s, i) == IF At(s, i) \in Digits THEN DigitsEnd(s, i + 1) ELSE i

\* A string whose opening quote is s[i] and whose closing quote is s[j]
\* (j = i: there is none).  A raw control character is a SyntaxError.
StringTo(s, i, j) ==
    IF j = i \/ \E m \in (i + 1)..(j - 1) : s[m] \in {LF, CR, TAB}
    THEN ParseFail
    ELSE ParseOk(Str(SubSeq(s, i + 1, j - 1)), j + 1)

ParseString(s, i) == StringTo(s, i, i + FirstIndex(SubSeq(s, i + 1, Len(s)), DQ))

\* -? digits (. digits)? from s[i]: i1 ends the integer part that starts at
\* i0, i2 ends the fraction.
NumberTo(s, i, i0, i1, i2) ==
    IF i1 = i0 \/ (At(s, i1) = "." /\ i2 = i1 + 1)
    THEN ParseFail
    ELSE ParseOk(Num(SubSeq(s, i, i2 - 1)), i2)

FractionEnd(s, i1) == IF At(s, i1) = "." THEN DigitsEnd(s, i1 + 1) ELSE i1

NumberFrom(s, i, i0, i1) == NumberTo(s, i, i0, i1, FractionEnd(s, i1))

ParseNumber(s, i) ==
    IF At(s, i) = "-"
    THEN NumberFrom(s, i, i + 1, DigitsEnd(s, i + 1))
    ELSE NumberFrom(s, i, i, DigitsEnd(s, i))

RECURSIVE ParseValue(_, _)
RECURSIVE ParseElements(_, _, _)
RECURSIVE ParseMembers(_, _, _)

\* An element r was read; j is the next position that holds no whitespace.
AfterElement(s, r, j, acc) ==
    IF ~r.ok THEN ParseFail
    ELSE IF At(s, j) = "," THEN ParseElements(s, j + 1, Append(acc, r.val))
    ELSE IF At(s, j) = "]" THEN ParseOk(Arr(Append(acc, r.val)), j + 1)
    ELSE ParseFail

ElementRead(s, r, acc) == AfterElement(s, r, SkipWS(s, r.next), acc)

\* After "[" or ",": acc holds the elements read so far.
ParseElements(s, i, acc) == ElementRead(s, ParseValue(s, i), acc)

\* A member key: r was read; j is the next position that holds no whitespace.
AfterMember(s, key, r, j, acc) ==
    IF ~r.ok THEN ParseFail
    ELSE IF At(s, j) = "," THEN ParseMembers(s, j + 1, Append(acc, <<key.val.v, r.val>>))
    ELSE IF At(s, j) = "}" THEN ParseOk(Obj(Append(acc, <<key.val.v, r.val>>)), j + 1)
    ELSE ParseFail

MemberRead(s, key, r, acc) == AfterMember(s, key, r, SkipWS(s, r.next), acc)

\* The key was read; c is the position of the colon.
AfterKey(s, key, c, acc) ==
    IF ~key.ok \/ At(s, c) # ":" THEN ParseFail
    ELSE MemberRead(s, key, ParseValue(s, c + 1), acc)

KeyRead(s, key, acc) == AfterKey(s, key, SkipWS(s, key.next), acc)

MemberAt(s, k, acc) ==
    IF At(s, k) # DQ THEN ParseFail ELSE KeyRead(s, ParseString(s, k), acc)

\* After "{" or ",": acc holds the <<key, value>> members read so far.
ParseMembers(s, i, acc) == MemberAt(s, SkipWS(s, i), acc)

\* The value at i, which holds no whitespace; j is the next such position.
ValueAt(s, i, j) ==
    CASE At(s, i) = "[" ->
            IF At(s, j) = "]" THEN ParseOk(Arr(<<>>), j + 1)
            ELSE ParseElements(s, i + 1, <<>>)
      [] At(s, i) = "{" ->
            IF At(s, j) = "}" THEN ParseOk(Obj(<<>>), j + 1)
            ELSE ParseMembers(s, i + 1, <<>>)
      [] At(s, i) = DQ -> ParseString(s, i)
      [] At(s, i) = "null" -> ParseOk(Null, i + 1)
      [] At(s, i) \in Digits \cup {"-"} -> ParseNumber(s, i)
      [] OTHER -> ParseFail

ValueFrom(s, i) == ValueAt(s, i, SkipWS(s, i + 1))

ParseValue(s, i) == ValueFrom(s, SkipWS(s, i))

\* The whole text must be one value, whitespace around it allowed.
WholeText(s, r) ==
    IF r.ok /\ SkipWS(s, r.next) = Len(s) + 1 THEN r ELSE ParseFail

\* JSON.parse(text): ok = FALSE is a SyntaxError.
JSONParse(s) == WholeText(s, ParseValue(s, 1))

\* obj[name] for a parsed value: the last member of that name wins; a value
\* that is no object (a number, a string, an array) has no such property.
Field(x, name) ==
    IF x.t = "obj" /\ \E i \in 1..Len(x.v) : x.v[i][1] = <<name>>
    THEN x.v[CHOOSE k \in 1..Len(x.v) :
                 x.v[k][1] = <<name>>
                 /\ \A m \in (k + 1)..Len(x.v) : x.v[m][1] # <<name>>][2]
    ELSE Undefined

\* String(x)
RECURSIVE JsString(_)
JsString(x) ==
    CASE x.t = "str" -> x.v
      [] x.t = "num" -> x.v
      [] x.t = "null" -> <<"null">>
      [] x.t = "undefined" -> <<"undefined">>
      [] x.t = "obj" -> <<"[object Object]">>
      [] x.t = "arr" ->
            JoinComma([i \in 1..Len(x.v) |->
                IF x.v[i].t \in {"null", "undefined"} THEN <<>> ELSE JsString(x.v[i])])

\* ------------------------------------------------------------------------
\* Step 5 of POST: the text of the model's reply to a list of questions.

\* parsed.map((q) => String(q).trim()).filter(Boolean); the kept strings.
RECURSIVE KeepNonEmpty(_)
KeepNonEmpty(ss) ==
    IF ss = <<>> THEN <<>>
    ELSE IF Head(ss) = <<>> THEN KeepNonEmpty(Tail(ss))
    ELSE <<Head(ss)>> \o KeepNonEmpty(Tail(ss))

TrimmedStrings(elems) == [i \in 1..Len(elems) |-> Trim(JsString(elems[i]))]

\* Array.from(new Set(list)): the first occurrence of each element, in order.
AddNew(seen, x) ==
    IF \E i \in 1..Len(seen) : seen[i] = x THEN seen ELSE Append(seen, x)

\* Faulty variant of Unique: the duplicates stay.
KeepDuplicates(ss) == ss

RECURSIVE Unique(_)
Unique(ss) ==
    IF ss = <<>> THEN <<>>
    ELSE AddNew(Unique(SubSeq(ss, 1, Len(ss) - 1)), ss[Len(ss)])

\* Faulty variant of StrictQuestions: the strict path deduplicates as the fallback does.
StrictQuestionsUnique(elems) == Unique(KeepNonEmpty(TrimmedStrings(elems)))

StrictQuestions(elems) == KeepNonEmpty(TrimmedStrings(elems))

\* .replace(/^[\s\[\]"]+|[\s\[\]"]+$/g, "")
TrimBrackets(s) == StripClass(s, Whitespace \cup {"[", "]", DQ})

\* One match of /\r?\n|"\s*,\s*"|",\s*"|"\s*,\s*|\s*[,]\s*/ starting at q:
\* the position after the match, 0 when none of the alternatives matches
\* there.  The alternatives are tried in the order written.
MatchNewline(s, q) ==
    IF At(s, q) = LF THEN q + 1
    ELSE IF At(s, q) = CR /\ At(s, q + 1) = LF THEN q + 2
    ELSE 0

\* "\s*,\s*" (which ",\s*" repeats), then "\s*,\s*
QuoteCommaEnd(s, w) == IF At(s, w) = DQ THEN w + 1 ELSE w

MatchQuoteComma(s, q) ==
    IF At(s, q) = DQ /\ At(s, SkipWS(s, q + 1)) = ","
    THEN QuoteCommaEnd(s, SkipWS(s, SkipWS(s, q + 1) + 1))
    ELSE 0

\* \s*[,]\s*
MatchComma(s, q) ==
    IF At(s, SkipWS(s, q)) = "," THEN SkipWS(s, SkipWS(s, q) + 1) ELSE 0

FirstMatch(a, b, c) == IF a # 0 THEN a ELSE IF b # 0 THEN b ELSE c

MatchSeparator(s, q) ==
    FirstMatch(MatchNewline(s, q), MatchQuoteComma(s, q), MatchComma(s, q))

\* String.prototype.split with that separator: p is the start of the piece
\* being read, q the position where a separator is looked for.
RECURSIVE SplitFrom(_, _, _)
SplitStep(s, p, q, e) ==
    IF e = 0 THEN SplitFrom(s, p, q + 1)
    ELSE <<SubSeq(s, p, q - 1)>> \o SplitFrom(s, e, e)

SplitFrom(s, p, q) ==
    IF q > Len(s) THEN <<SubSeq(s, p, Len(s))>>
    ELSE SplitStep(s, p, q, MatchSeparator(s, q))

SplitPieces(s) == SplitFrom(s, 1, 1)

\* .replace(/^\d+[\).\s-]+/, "")
NumberingSeparators == Whitespace \cup {")", ".", "-"}

NumberingFrom(s, d) ==
    IF d > 1 /\ At(s, d) \in NumberingSeparators
    THEN DropLeading(SubSeq(s, d, Len(s)), NumberingSeparators)
    ELSE s

StripNumbering(s) == NumberingFrom(s, DigitsEnd(s, 1))

\* s => s.replace(numbering).replace(/^["'\s]+|["'\s]+$/g, "").trim()
CleanPiece(s) == Trim(StripClass(StripNumbering(s), Whitespace \cup {DQ, SQ}))

CleanPieces(pieces) == [i \in 1..Len(pieces) |-> CleanPiece(pieces[i])]

FallbackQuestions(text) ==
    Unique(KeepNonEmpty(CleanPieces(SplitPieces(TrimBrackets(text)))))

\* Whether the try block of step 5 takes the strict path for the result r
\* of JSON.parse, and the array it maps then.
StrictArrayOf(r) ==
    IF ~r.ok THEN [ok |-> FALSE, elems |-> <<>>]
    ELSE IF r.val.t = "arr" THEN [ok |-> TRUE, elems |-> r.val.v]
    ELSE IF Truthy(r.val) /\ Truthy(Field(r.val, "questions"))
            /\ Field(r.val, "questions").t = "arr"
    THEN [ok |-> TRUE, elems |-> Field(r.val, "questions").v]
    ELSE [ok |-> FALSE, elems |-> <<>>]

StrictArray(text) == StrictArrayOf(JSONParse(text))

\* Step 5 as a whole, for the value questionsText holds: the list, whether
\* the fallback ran, and whether a TypeError left the block (a text that is
\* truthy and no string has no replace method).
ParseText(text, strict) ==
    IF strict.ok
    THEN [questions |-> StrictQuestions(strict.elems),
          fallback |-> FALSE, threw |-> FALSE]
    ELSE [questions |-> FallbackQuestions(text),
          fallback |-> TRUE, threw |-> FALSE]

ParseQuestions(questionsText) ==
    IF ~Truthy(questionsText)
    THEN [questions |-> <<>>, fallback |-> FALSE, threw |-> FALSE]
    ELSE IF questionsText.t # "str"
    THEN [questions |-> <<>>, fallback |-> TRUE, threw |-> TRUE]
    ELSE ParseText(questionsText.v, StrictArray(questionsText.v))

\* ------------------------------------------------------------------------
\* Steps 1, 2, 4 and 6 of POST.

\* request.json().catch(() => ({})): an absent or malformed body is {}.
OrEmptyObject(r) == IF r.ok THEN r.val ELSE Obj(<<>>)

ReadBody(raw) == OrEmptyObject(JSONParse(raw))

\* const { ... } = body throws a TypeError for null (and undefined).
DestructureThrows(b) == b.t \in {"null", "undefined"}

\* The guard of the 401 return.  header is request.headers.get(..) || "".
SecretRejected(secret, header) ==
    secret # "" /\ (header = "" \/ header # secret)

\* authHeader.match(/^Bearer (.+)$/): the token, <<>> when there is no match.
BearerToken(header) ==
    IF Len(header) >= 3 /\ header[1] = "Bearer" /\ header[2] = SP
       /\ \A i \in 3..Len(header) : header[i] \notin {LF, CR}
    THEN SubSeq(header, 3, Len(header))
    ELSE <<>>

\* Faulty variant of ResolveUserId: the verified subject is not used.
ResolveUserIdFromBody(userid, decoded) == userid

\* if (decoded && decoded.uid) resolvedUserId = decoded.uid
ResolveUserId(userid, decoded) ==
    IF Truthy(decoded) /\ Truthy(Field(decoded, "uid"))
    THEN Field(decoded, "uid")
    ELSE userid

\* Faulty variant of VerifyFailed: a failed verification is answered with 401.
VerifyFailedFatal(userid) == [userId |-> userid, status |-> 401]

\* The catch of the verification: the failure is logged, resolvedUserId
\* keeps the body's userid and the handler goes on (status 0: no response).
VerifyFailed(userid) == [userId |-> userid, status |-> 0]

\* Step 4: the text read from the reply of generateText.  A reply is
\* [shape, text]:
\*   "text"      an object whose text field is the string text
\*   "output"    an object with output[0].content an array, text its
\*               content[0].text (any value)
\*   "content"   an object with output[0].content truthy and no array
\*   "object"    any other object, text its JSON.stringify
\*   "string"    the string text
\*   "nullish"   undefined or null
ExtractText(llm) ==
    CASE llm.shape = "text" -> llm.text
      [] llm.shape = "output" -> IF Truthy(llm.text) THEN llm.text ELSE Undefined
      [] llm.shape = "content" -> Undefined
      [] llm.shape = "object" -> llm.text
      [] llm.shape = "string" -> llm.text
      [] OTHER -> Undefined

\* Faulty variant of NoQuestions: the empty list is not checked for.
NeverNoQuestions(questions) == FALSE

\* if (!questionsArray || questionsArray.length === 0)
NoQuestions(questions) == Len(questions) = 0

\* The techstack field of the record.
Strings(ss) == [i \in 1..Len(ss) |-> Str(ss[i])]

\* Faulty variant of Techstack: the elements are not trimmed.
TechstackUntrimmed(techstack) ==
    IF techstack.t = "str" THEN SplitComma(techstack.v)
    ELSE IF techstack.t = "arr" THEN [i \in 1..Len(techstack.v) |-> JsString(techstack.v[i])]
    ELSE <<>>

Techstack(techstack) ==
    TrimmedStrings(IF techstack.t = "str" THEN Strings(SplitComma(techstack.v))
                   ELSE IF techstack.t = "arr" THEN techstack.v
                   ELSE <<>>)

\* Step 6: the interview object.  The value of the timestamp is left out.
BuildInterview(b, questions, userId, cover) ==
    [role |-> Field(b, "role"),
     type |-> Field(b, "type"),
     level |-> Field(b, "level"),
     techstack |-> Techstack(Field(b, "techstack")),
     questions |-> questions,
     userId |-> userId,
     finalized |-> TRUE,
     coverImage |-> cover,
     createdAt |-> "toISOString"]

\* ------------------------------------------------------------------------
\* The inputs of the model.

NumRequests == 2
Requests == 1..NumRequests

Quote(s) == <<DQ>> \o s \o <<DQ>>
Member(name, text) == Quote(<<name>>) \o <<":">> \o text
ObjectText(members) == <<"{">> \o JoinComma(members) \o <<"}">>
ArrayText(elems) == <<"[">> \o JoinComma(elems) \o <<"]">>

\* Texts of a techstack value: strings, arrays, and values that are neither.
TechstackTexts ==
    {Quote(<<"Go", ",", "Rust">>),
     Quote(<<SP, "Go", SP, ",", "Rust", SP, SP>>),
     Quote(<<"Go", ",", ",", "Rust", ",">>),
     Quote(<<>>),
     ArrayText(<<Quote(<<"Go">>), Quote(<<SP, "Rust", SP>>)>>),
     ArrayText(<<Quote(<<"Rust">>), <<"7">>, Quote(<<"Go", ",", "Rust">>), Quote(<<"Rust">>)>>),
     ArrayText(<<>>),
     <<"7">>,
     <<"null">>,
     ObjectText(<<Member("Go", <<"1">>)>>)}

UserIds == {<<"alice">>, <<"bob">>}

FullBody(techText, user) ==
    ObjectText(<<Member("type", Quote(<<"technical">>)),
                 Member("role", Quote(<<"Developer">>)),
                 Member("level", Quote(<<"Senior">>)),
                 Member("techstack", techText),
                 Member("amount", <<"5">>),
                 Member("userid", Quote(user))>>)

\* Request bodies: absent, malformed, JSON that is no object, objects with
\* none, some or all of the fields.
Bodies ==
    {<<>>, <<"{">>, <<"null">>, <<"7">>, ArrayText(<<>>), ObjectText(<<>>),
     ObjectText(<<Member("other", <<"1">>)>>),
     ObjectText(<<Member("userid", Quote(<<"alice">>))>>)}
    \cup {ObjectText(<<Member("techstack", t)>>) : t \in TechstackTexts}
    \cup {FullBody(t, u) : t \in TechstackTexts, u \in UserIds}

ConcurrentBodies ==
    {<<"null">>, FullBody(Quote(<<"Go", ",", "Rust">>), <<"alice">>)}

\* x-vapi-secret as the handler reads it ("" when the header is absent), and
\* the values of VAPI_SECRET ("" when it is not set).
ConfiguredSecret == "s3cret"
SecretHeaders == {"", ConfiguredSecret, "wrong"}
SecretSettings == {"", ConfiguredSecret}
ConcurrentSecretHeaders == {ConfiguredSecret, "wrong"}

\* Authorization headers.  The identity verifier accepts the tokens of
\* Subject and answers with their subject; it rejects every other token, and
\* may fail for any token.
AuthHeaders ==
    {<<>>, <<"Bearer", SP, "tokenOfCarol">>, <<"Bearer", SP, "tokenOfAlice">>,
     <<"Bearer", SP, "expired">>, <<"Basic", SP, "tokenOfCarol">>}

ConcurrentAuthHeaders == {<<>>, <<"Bearer", SP, "tokenOfCarol">>}

Subject(token) ==
    CASE token = <<"tokenOfCarol">> -> <<"carol">>
      [] token = <<"tokenOfAlice">> -> <<"alice">>
      [] OTHER -> <<>>

Decoded(token) == Obj(<<<< <<"uid">>, Str(Subject(token)) >>>>)

\* Replies of the text model used with the whole handler.
Q1 == Quote(<<"Q1">>)
Q2 == Quote(<<"Q2">>)
Q3 == Quote(<<"Q3">>)

ReplyTexts ==
    {ArrayText(<<Q1, Q2, Q2, Q3>>),
     ArrayText(<<>>),
     ArrayText(<<Quote(<<>>), Quote(<<SP>>)>>),
     ObjectText(<<Member("questions", ArrayText(<<Q1>>))>>),
     ObjectText(<<Member("questions", ArrayText(<<>>))>>),
     <<"1", ".", SP, "What is X", LF, "2", ".", SP, "What is Y", LF>>,
     <<SP, LF>>,
     <<"[", DQ>>,
     <<"null">>,
     <<>>}

Replies ==
    {[shape |-> "text", text |-> Str(t)] : t \in ReplyTexts}
    \cup {[shape |-> "output", text |-> Str(t)] :
             t \in {ArrayText(<<Q1, Q2>>), ArrayText(<<>>), <<>>}}
    \cup {[shape |-> "output", text |-> Num(<<"5">>)],
          [shape |-> "output", text |-> Undefined],
          [shape |-> "content", text |-> Undefined],
          [shape |-> "object", text |-> Str(ObjectText(<<Member("foo", <<"1">>)>>))],
          [shape |-> "object", text |-> Str(ObjectText(<<Member("questions", ArrayText(<<>>))>>))],
          [shape |-> "string", text |-> Str(ArrayText(<<Q1>>))],
          [shape |-> "string", text |-> Str(<<>>)],
          [shape |-> "nullish", text |-> Undefined]}

ConcurrentReplies ==
    {[shape |-> "text", text |-> Str(ArrayText(<<Q1, Q2>>))],
     [shape |-> "text", text |-> Str(ArrayText(<<>>))]}

\* Texts for step 5 taken alone.
MaxRawLen == 4
MaxElems == 3
MaxLines == 3

RECURSIVE SeqsUpTo(_, _)
SeqsUpTo(S, n) ==
    IF n = 0 THEN {<<>>}
    ELSE SeqsUpTo(S, n - 1)
         \cup {Append(q, x) : q \in {p \in SeqsUpTo(S, n - 1) : Len(p) = n - 1}, x \in S}

RawAlphabet == {"[", "]", DQ, ",", SP, LF, "1", ".", "X"}
RawTexts == SeqsUpTo(RawAlphabet, MaxRawLen)

ElementTexts ==
    {Q1, Q2, Quote(<<>>), Quote(<<SP, "Q3", SP>>), <<"7">>, <<SP, "null">>,
     ArrayText(<<Q1, <<"2">>>>)}
ArrayTexts == {ArrayText(e) : e \in SeqsUpTo(ElementTexts, MaxElems)}
JsonTexts ==
    ArrayTexts
    \cup {ObjectText(<<Member("questions", a)>>) : a \in ArrayTexts}
    \cup {ObjectText(<<Member("questions", Q1)>>),
          ObjectText(<<Member("items", ArrayText(<<Q1>>))>>),
          ObjectText(<<Member("questions", <<"null">>), Member("questions", ArrayText(<<Q2>>))>>),
          ArrayText(<<Q1, Q2, Q2, Q3>>),
          <<"7", ".", "5">>, <<"-", "7">>, Q1, <<"null">>}

Lines ==
    {<<"1", ".", SP, "What is X">>,
     <<"2", ".", SP, "What is Y">>,
     <<"2", ")", SP, "What is X">>,
     <<"1", "2", ".", SP, "Why X", SP, "2">>,
     <<"1", ".", SP, "What is X", ",", SP, "and why">>,
     <<SP, "3", ".", SP, "What is Y">>,
     <<"-", SP, SQ, "What is Y", SQ>>,
     <<"What is X", CR>>,
     <<>>}

RECURSIVE JoinLines(_)
JoinLines(ls) ==
    IF ls = <<>> THEN <<>>
    ELSE IF Len(ls) = 1 THEN ls[1]
    ELSE ls[1] \o <<LF>> \o JoinLines(Tail(ls))

LineTexts ==
    {JoinLines(ls) : ls \in SeqsUpTo(Lines, MaxLines)}
    \cup {JoinLines(ls) \o <<LF>> : ls \in SeqsUpTo(Lines, MaxLines)}

Texts == RawTexts \cup JsonTexts \cup LineTexts

\* getRandomInterviewCover()
Covers == {"/adobe.png", "/amazon.png"}
ConcurrentCovers == {"/adobe.png"}

\* ------------------------------------------------------------------------
\* State.  Every variable but vapiSecret and store is a function of the
\* request: the locals of that request's run of POST.

VARIABLES
    vapiSecret,      \* process.env.VAPI_SECRET, "" when not set
    store,           \* the interviews collection: the documents added, in
                     \* order, each [id, data]; the id the store gives a
                     \* document is the number of the request that added it
    pc,              \* where the run is: "idle", "json", "verify", "llm", "add",
                     \* "stored" (the add is committed, its promise not yet
                     \* resolved), "done" (a Response was returned), "thrown"
                     \* (the promise of POST was rejected)
    request,         \* [body, secret, auth]: the raw body and the two headers
    body,            \* const body
    resolvedUserId,  \* let resolvedUserId
    decoded,         \* const decoded, undefined until verifyIdToken resolves
    llm,             \* const llm
    questionsText,   \* let questionsText
    questionsArray,  \* let questionsArray
    usedFallback,    \* whether the catch of JSON.parse ran
    interview,       \* const interview
    response,        \* the Response returned: [status, success, error]
    raised,          \* the exception that left the statement it was raised in
    calls            \* [verify, llm, add]: calls made to the three services

vars == <<vapiSecret, store, pc, request, body, resolvedUserId, decoded, llm,
          questionsText, questionsArray, usedFallback, interview, response,
          raised, calls>>

NoRequest == [body |-> <<>>, secret |-> "", auth |-> <<>>]
NoReply == [shape |-> "none", text |-> Undefined]
NoInterview == [finalized |-> FALSE]
NoResponse == [status |-> 0, success |-> FALSE, error |-> ""]
NoCalls == [verify |-> 0, llm |-> 0, add |-> 0]

\* Response.json({ success, error }, { status })
Failure(status, error) == [status |-> status, success |-> FALSE, error |-> error]
Success == [status |-> 200, success |-> TRUE, error |-> ""]

\* The catch of POST: String(error) of whatever the try block raised.
CatchAll(error) == Failure(500, error)

Init ==
    /\ vapiSecret \in SecretSettings
    /\ store = <<>>
    /\ pc = [r \in Requests |-> "idle"]
    /\ request = [r \in Requests |-> NoRequest]
    /\ body = [r \in Requests |-> Undefined]
    /\ resolvedUserId = [r \in Requests |-> Undefined]
    /\ decoded = [r \in Requests |-> Undefined]
    /\ llm = [r \in Requests |-> NoReply]
    /\ questionsText = [r \in Requests |-> Undefined]
    /\ questionsArray = [r \in Requests |-> <<>>]
    /\ usedFallback = [r \in Requests |-> FALSE]
    /\ interview = [r \in Requests |-> NoInterview]
    /\ response = [r \in Requests |-> NoResponse]
    /\ raised = [r \in Requests |-> "none"]
    /\ calls = [r \in Requests |-> NoCalls]

\* A POST request arrives; the handler starts and awaits request.json().
Arrive(r, bodies, secrets, auths) ==
    /\ pc[r] = "idle"
    /\ \E b \in bodies, s \in secrets, a \in auths :
          request' = [request EXCEPT ![r] = [body |-> b, secret |-> s, auth |-> a]]
    /\ pc' = [pc EXCEPT ![r] = "json"]
    /\ UNCHANGED <<vapiSecret, store, body, resolvedUserId, decoded, llm,
                   questionsText, questionsArray, usedFallback, interview, response,
                   raised, calls>>

\* request.json() settles with b: the destructuring, then steps 1 and 2 up
\* to the first await (verifyIdToken when a bearer token is sent, else
\* generateText).
BeginWith(r, b, token) ==
    /\ body' = [body EXCEPT ![r] = b]
    /\ IF DestructureThrows(b)
       THEN /\ pc' = [pc EXCEPT ![r] = "thrown"]
            /\ raised' = [raised EXCEPT ![r] = "TypeError: destructure"]
            /\ UNCHANGED <<response, resolvedUserId, calls>>
       ELSE IF SecretRejected(vapiSecret, request[r].secret)
       THEN /\ pc' = [pc EXCEPT ![r] = "done"]
            /\ response' = [response EXCEPT ![r] =
                               Failure(401, "Unauthorized VAPI request")]
            /\ UNCHANGED <<raised, resolvedUserId, calls>>
       ELSE /\ resolvedUserId' = [resolvedUserId EXCEPT ![r] = Field(b, "userid")]
            /\ IF token # <<>>
               THEN /\ pc' = [pc EXCEPT ![r] = "verify"]
                    /\ calls' = [calls EXCEPT ![r].verify = @ + 1]
               ELSE /\ pc' = [pc EXCEPT ![r] = "llm"]
                    /\ calls' = [calls EXCEPT ![r].llm = @ + 1]
            /\ UNCHANGED <<raised, response>>

Begin(r) ==
    /\ pc[r] = "json"
    /\ BeginWith(r, ReadBody(request[r].body), BearerToken(request[r].auth))
    /\ UNCHANGED <<vapiSecret, store, request, decoded, llm, questionsText,
                   questionsArray, usedFallback, interview>>

\* auth.verifyIdToken resolves with the decoded token; generateText is called.
VerifyResolve(r) ==
    /\ pc[r] = "verify"
    /\ Subject(BearerToken(request[r].auth)) # <<>>
    /\ decoded' = [decoded EXCEPT ![r] = Decoded(BearerToken(request[r].auth))]
    /\ resolvedUserId' = [resolvedUserId EXCEPT ![r] =
          ResolveUserId(Field(body[r], "userid"), Decoded(BearerToken(request[r].auth)))]
    /\ pc' = [pc EXCEPT ![r] = "llm"]
    /\ calls' = [calls EXCEPT ![r].llm = @ + 1]
    /\ UNCHANGED <<vapiSecret, store, request, body, llm, questionsText,
                   questionsArray, usedFallback, interview, response, raised>>

\* auth.verifyIdToken rejects; the inner catch runs and generateText is called.
Rejected(r, out) ==
    /\ resolvedUserId' = [resolvedUserId EXCEPT ![r] = out.userId]
    /\ IF out.status = 0
       THEN /\ pc' = [pc EXCEPT ![r] = "llm"]
            /\ calls' = [calls EXCEPT ![r].llm = @ + 1]
            /\ UNCHANGED response
       ELSE /\ pc' = [pc EXCEPT ![r] = "done"]
            /\ response' = [response EXCEPT ![r] =
                               Failure(out.status, "Token verification failed")]
            /\ UNCHANGED calls

VerifyReject(r) ==
    /\ pc[r] = "verify"
    /\ Rejected(r, VerifyFailed(Field(body[r], "userid")))
    /\ UNCHANGED <<vapiSecret, store, request, body, decoded, llm, questionsText,
                   questionsArray, usedFallback, interview, raised>>

\* generateText resolves with reply: steps 4, 5 and 6 up to the await of
\* the add.  text is what step 4 extracts, parsed what step 5 makes of it.
Parsed(r, reply, cover, text, parsed) ==
    /\ llm' = [llm EXCEPT ![r] = reply]
    /\ questionsText' = [questionsText EXCEPT ![r] = text]
    /\ questionsArray' = [questionsArray EXCEPT ![r] = parsed.questions]
    /\ usedFallback' = [usedFallback EXCEPT ![r] = parsed.fallback]
    /\ IF parsed.threw
       THEN /\ raised' = [raised EXCEPT ![r] = "TypeError: replace"]
            /\ response' = [response EXCEPT ![r] = CatchAll("TypeError: replace")]
            /\ pc' = [pc EXCEPT ![r] = "done"]
            /\ UNCHANGED <<interview, calls>>
       ELSE IF NoQuestions(parsed.questions)
       THEN /\ response' = [response EXCEPT ![r] =
                               Failure(502, "LLM did not return questions")]
            /\ pc' = [pc EXCEPT ![r] = "done"]
            /\ UNCHANGED <<interview, calls, raised>>
       ELSE /\ interview' = [interview EXCEPT ![r] =
                                BuildInterview(body[r], parsed.questions,
                                               resolvedUserId[r], cover)]
            /\ calls' = [calls EXCEPT ![r].add = @ + 1]
            /\ pc' = [pc EXCEPT ![r] = "add"]
            /\ UNCHANGED <<response, raised>>

Extracted(r, reply, cover, text) ==
    Parsed(r, reply, cover, text, ParseQuestions(text))

LlmResolve(r, replies, covers) ==
    /\ pc[r] = "llm"
    /\ \E reply \in replies, cover \in covers :
          Extracted(r, reply, cover, ExtractText(reply))
    /\ UNCHANGED <<vapiSecret, store, request, body, resolvedUserId, decoded>>

\* generateText rejects (a network or provider error).
LlmReject(r) ==
    /\ pc[r] = "llm"
    /\ raised' = [raised EXCEPT ![r] = "Error: generateText"]
    /\ response' = [response EXCEPT ![r] = CatchAll("Error: generateText")]
    /\ pc' = [pc EXCEPT ![r] = "done"]
    /\ UNCHANGED <<vapiSecret, store, request, body, resolvedUserId, decoded, llm,
                   questionsText, questionsArray, usedFallback, interview, calls>>

\* The store commits the document of db.collection("interviews").add.
AddCommit(r) ==
    /\ pc[r] = "add"
    /\ store' = Append(store, [id |-> r, data |-> interview[r]])
    /\ pc' = [pc EXCEPT ![r] = "stored"]
    /\ UNCHANGED <<vapiSecret, request, body, resolvedUserId, decoded, llm,
                   questionsText, questionsArray, usedFallback, interview, response,
                   raised, calls>>

\* The promise of the add resolves: the handler returns its 200.
AddResolve(r) ==
    /\ pc[r] = "stored"
    /\ response' = [response EXCEPT ![r] = Success]
    /\ pc' = [pc EXCEPT ![r] = "done"]
    /\ UNCHANGED <<vapiSecret, store, request, body, resolvedUserId, decoded, llm,
                   questionsText, questionsArray, usedFallback, interview, raised,
                   calls>>

\* The add rejects: nothing is stored.
AddReject(r) ==
    /\ pc[r] = "add"
    /\ raised' = [raised EXCEPT ![r] = "Error: add"]
    /\ response' = [response EXCEPT ![r] = CatchAll("Error: add")]
    /\ pc' = [pc EXCEPT ![r] = "done"]
    /\ UNCHANGED <<vapiSecret, store, request, body, resolvedUserId, decoded, llm,
                   questionsText, questionsArray, usedFallback, interview, calls>>

\* One request, over all the inputs.
Next ==
    \/ Arrive(1, Bodies, SecretHeaders, AuthHeaders)
    \/ Begin(1)
    \/ VerifyResolve(1)
    \/ VerifyReject(1)
    \/ LlmResolve(1, Replies, Covers)
    \/ LlmReject(1)
    \/ AddCommit(1)
    \/ AddResolve(1)
    \/ AddReject(1)

Spec == Init /\ [][Next]_vars

\* NumRequests requests whose runs interleave at every await.
NextConcurrent ==
    \E r \in Requests :
        \/ Arrive(r, ConcurrentBodies, ConcurrentSecretHeaders, ConcurrentAuthHeaders)
        \/ Begin(r)
        \/ VerifyResolve(r)
        \/ VerifyReject(r)
        \/ LlmResolve(r, ConcurrentReplies, ConcurrentCovers)
        \/ LlmReject(r)
        \/ AddCommit(r)
        \/ AddResolve(r)
        \/ AddReject(r)

SpecConcurrent == Init /\ [][NextConcurrent]_vars

\* Step 5 alone: questionsText holds any of the texts (or a value that is
\* no string) and the step is applied to it.
InitParse ==
    /\ vapiSecret = ""
    /\ store = <<>>
    /\ pc = [r \in Requests |-> IF r = 1 THEN "text" ELSE "idle"]
    /\ request = [r \in Requests |-> NoRequest]
    /\ body = [r \in Requests |-> Undefined]
    /\ resolvedUserId = [r \in Requests |-> Undefined]
    /\ decoded = [r \in Requests |-> Undefined]
    /\ llm = [r \in Requests |-> NoReply]
    /\ \E t \in {Str(x) : x \in Texts} \cup {Undefined, Num(<<"5">>)} :
          questionsText = [r \in Requests |-> IF r = 1 THEN t ELSE Undefined]
    /\ questionsArray = [r \in Requests |-> <<>>]
    /\ usedFallback = [r \in Requests |-> FALSE]
    /\ interview = [r \in Requests |-> NoInterview]
    /\ response = [r \in Requests |-> NoResponse]
    /\ raised = [r \in Requests |-> "none"]
    /\ calls = [r \in Requests |-> NoCalls]

Applied(parsed) ==
    /\ questionsArray' = [questionsArray EXCEPT ![1] = parsed.questions]
    /\ usedFallback' = [usedFallback EXCEPT ![1] = parsed.fallback]
    /\ raised' = [raised EXCEPT ![1] =
                     IF parsed.threw THEN "TypeError: replace" ELSE "none"]

ParseStep ==
    /\ pc[1] = "text"
    /\ Applied(ParseQuestions(questionsText[1]))
    /\ pc' = [pc EXCEPT ![1] = "parsed"]
    /\ UNCHANGED <<vapiSecret, store, request, body, resolvedUserId, decoded, llm,
                   questionsText, interview, response, calls>>

NextParse == ParseStep

SpecParse == InitParse /\ [][NextParse]_vars

\* ------------------------------------------------------------------------
\* Properties.

\* The run of request r has gone past the await of request.json().
Reached(r) == pc[r] \notin {"idle", "json", "text", "parsed"}

\* A document of request r is in the collection; the data of that document.
Inserted(r) == \E i \in 1..Len(store) : store[i].id = r
RecordOf(r) == store[CHOOSE i \in 1..Len(store) : store[i].id = r].data

BodyFields == {"type", "role", "level", "techstack", "amount", "userid"}

\* Bodies that carry none of the fields.
FieldlessBodies ==
    {<<>>, <<"{">>, <<"null">>, <<"7">>, ArrayText(<<>>), ObjectText(<<>>),
     ObjectText(<<Member("other", <<"1">>)>>)}

\* C1: with VAPI_SECRET configured and the x-vapi-secret header absent or
\* different, the response is 401 for every body, and the request makes no
\* call to the verifier, the model or the store.
C1_UnauthorizedIs401 ==
    \A r \in Requests :
        (Reached(r) /\ vapiSecret # "" /\ request[r].secret # vapiSecret)
        => /\ pc[r] = "done"
           /\ response[r].status = 401
           /\ calls[r] = NoCalls
           /\ ~Inserted(r)

\* C2: a reply of the model that yields no usable question (no text could
\* be extracted, or the strict or the fallback parse ends with an empty
\* list) is answered with 502, and nothing is added to the collection.
ZeroQuestions(r) ==
    /\ llm[r] # NoReply
    /\ \/ ~Truthy(questionsText[r])
       \/ questionsText[r].t = "str" /\ questionsArray[r] = <<>>

C2_NoQuestionsIs502 ==
    \A r \in Requests :
        ZeroQuestions(r)
        => /\ pc[r] = "done"
           /\ response[r] = Failure(502, "LLM did not return questions")
           /\ calls[r].add = 0
           /\ ~Inserted(r)

\* A strict parse that succeeded with an all-blank array, answered with 502.
C2_Witness ==
    \E r \in Requests :
        /\ ZeroQuestions(r)
        /\ questionsText[r] = Str(ArrayText(<<Quote(<<>>), Quote(<<SP>>)>>))
        /\ ~usedFallback[r]
        /\ response[r].status = 502

\* C3: when the verifier accepted the bearer token, the userId of the
\* record the request stores is the subject of the token, whatever the
\* userid of the body.
C3_VerifiedSubjectStored ==
    \A r \in Requests :
        (Truthy(decoded[r]) /\ Inserted(r))
        => RecordOf(r).userId = Str(Subject(BearerToken(request[r].auth)))

\* A record stored under the subject carol for a body whose userid is alice.
C3_Witness ==
    \E r \in Requests :
        /\ Truthy(decoded[r])
        /\ Inserted(r)
        /\ Field(body[r], "userid") = Str(<<"alice">>)
        /\ RecordOf(r).userId = Str(<<"carol">>)

\* C4: when the verification of the bearer token failed, the handler goes
\* on to the model call with the userid of the body; the record stored
\* carries that userid, and the status is the one the model and the store
\* decide: never 401, 500 only for an exception, 502 only for no questions.
VerificationFailed(r) ==
    calls[r].verify = 1 /\ pc[r] # "verify" /\ ~Truthy(decoded[r])

C4_FailedVerificationFallsBack ==
    \A r \in Requests :
        VerificationFailed(r)
        => /\ calls[r].llm = 1
           /\ resolvedUserId[r] = Field(body[r], "userid")
           /\ Inserted(r) => RecordOf(r).userId = Field(body[r], "userid")
           /\ response[r].status \in {0, 200, 500, 502}
           /\ response[r].status = 500 => raised[r] # "none"
           /\ response[r].status = 502 => questionsArray[r] = <<>>
           /\ (pc[r] = "done" /\ raised[r] = "none" /\ questionsArray[r] # <<>>)
                 => response[r].status = 200

\* A failed verification followed by a 200 and a record under the body's userid.
C4_Witness ==
    \E r \in Requests :
        /\ VerificationFailed(r)
        /\ response[r].status = 200
        /\ Inserted(r)
        /\ RecordOf(r).userId = Str(<<"alice">>)

\* C5: every exception raised in the flow of POST, the handling of the
\* body included, ends in the catch of POST: a response of status 500 whose
\* error is the stringified exception.  A failed model call stores nothing,
\* a failed add is never answered with 200.
C5_EveryExceptionIs500 ==
    \A r \in Requests :
        raised[r] # "none"
        => /\ pc[r] = "done"
           /\ response[r] = Failure(500, raised[r])
           /\ raised[r] = "Error: generateText" => ~Inserted(r)
           /\ raised[r] = "Error: add" => response[r].status # 200

\* C6: a body that carries none of the fields (absent, malformed, {}, null,
\* a number, an array) is read as an object with every field undefined, and
\* the handler does not throw before the model call.
C6_FieldlessBodyNeverThrows ==
    \A r \in Requests :
        (Reached(r) /\ request[r].body \in FieldlessBodies)
        => /\ pc[r] # "thrown"
           /\ raised[r] \notin {"TypeError: destructure"}
           /\ \A f \in BodyFields : Field(body[r], f) = Undefined
           /\ ~SecretRejected(vapiSecret, request[r].secret)
                 => calls[r].verify + calls[r].llm >= 1

\* C7: a text that is a JSON array, or a JSON object with a questions
\* array, takes the strict path: the fallback does not run and the list is
\* the elements as trimmed strings, the empty ones dropped, in order, the
\* duplicates kept.
NonEmpty(x) == x # <<>>

TrimmedNonEmpty(elems) ==
    SelectSeq([i \in 1..Len(elems) |-> Trim(JsString(elems[i]))], NonEmpty)

StrictResult(value) ==
    /\ (value.t = "arr")
          => ~usedFallback[1] /\ questionsArray[1] = TrimmedNonEmpty(value.v)
    /\ (value.t = "obj" /\ Field(value, "questions").t = "arr")
          => /\ ~usedFallback[1]
             /\ questionsArray[1] = TrimmedNonEmpty(Field(value, "questions").v)

C7_StrictPathKeepsArray ==
    (pc[1] = "parsed" /\ questionsText[1].t = "str")
    => /\ JSONParse(questionsText[1].v).ok
             => StrictResult(JSONParse(questionsText[1].v).val)
       /\ questionsText[1].v = ArrayText(<<Q1, Q2, Q2, Q3>>)
             => questionsArray[1] = <<<<"Q1">>, <<"Q2">>, <<"Q2">>, <<"Q3">>>>

\* The text ["Q1","Q2","Q2","Q3"] parsed on the strict path, Q2 kept twice.
C7_Witness ==
    /\ pc[1] = "parsed"
    /\ questionsText[1] = Str(ArrayText(<<Q1, Q2, Q2, Q3>>))
    /\ ~usedFallback[1]
    /\ Len(questionsArray[1]) = 4

\* C8.  A numbered line is digits, then "." or ")", a blank and a content
\* of letters, digits and interior blanks that starts with a letter; with
\* commas, the content may hold commas too.
Letter(c) ==
    c \notin Whitespace \cup Digits
             \cup {DQ, SQ, "[", "]", "{", "}", ",", ".", ")", "-", ":", "null"}

Content(b, commas) ==
    /\ b # <<>>
    /\ Letter(b[1])
    /\ b[Len(b)] # SP
    /\ \A i \in 1..Len(b) :
          Letter(b[i]) \/ b[i] \in Digits \cup {SP} \/ (commas /\ b[i] = ",")

ContentOf(line) == SubSeq(line, DigitsEnd(line, 1) + 2, Len(line))

NumberedLine(line, commas) ==
    /\ DigitsEnd(line, 1) > 1
    /\ At(line, DigitsEnd(line, 1)) \in {".", ")"}
    /\ At(line, DigitsEnd(line, 1) + 1) = SP
    /\ Content(ContentOf(line), commas)

\* The lines of a text: the pieces between its line feeds, without the empty
\* piece after a last line feed.
RECURSIVE LinesOf(_)
LinesOf(text) ==
    IF text = <<>> THEN <<>>
    ELSE IF FirstIndex(text, LF) = 0 THEN <<text>>
    ELSE <<SubSeq(text, 1, FirstIndex(text, LF) - 1)>>
         \o LinesOf(SubSeq(text, FirstIndex(text, LF) + 1, Len(text)))

NumberedLines(text, commas) ==
    /\ text # <<>>
    /\ \A i \in 1..Len(LinesOf(text)) : NumberedLine(LinesOf(text)[i], commas)

\* result holds every item once, in the order of the first occurrences.
FirstPosition(items, x) ==
    CHOOSE i \in 1..Len(items) :
        items[i] = x /\ \A j \in 1..(i - 1) : items[j] # x

DistinctInOrder(result, items) ==
    /\ {result[i] : i \in 1..Len(result)} = {items[i] : i \in 1..Len(items)}
    /\ \A i, j \in 1..Len(result) :
          i < j => /\ result[i] # result[j]
                   /\ FirstPosition(items, result[i]) < FirstPosition(items, result[j])

OneQuestionPerLine(text) ==
    /\ usedFallback[1]
    /\ DistinctInOrder(questionsArray[1],
                       [i \in 1..Len(LinesOf(text)) |-> ContentOf(LinesOf(text)[i])])

\* C8 as claimed: the fallback splits only at line feeds and between quoted
\* strings, so a text of numbered lines gives one question for each distinct
\* line, in line order.
C8_OneQuestionPerNumberedLine ==
    (pc[1] = "parsed" /\ questionsText[1].t = "str"
        /\ NumberedLines(questionsText[1].v, TRUE))
    => OneQuestionPerLine(questionsText[1].v)

\* C8 as amended: the fallback splits at line feeds and at every comma, so
\* a text without line feed and comma gives at most one question, and a
\* text of numbered lines that hold no comma gives the contents of the
\* lines, each distinct content once, in the order of first occurrence; the
\* text "1. What is X\n2. What is Y\n" gives What is X, What is Y.
C8_OneQuestionPerCommaFreeLine ==
    (pc[1] = "parsed" /\ questionsText[1].t = "str")
    => /\ NumberedLines(questionsText[1].v, FALSE)
             => OneQuestionPerLine(questionsText[1].v)
       /\ (usedFallback[1] /\ \A i \in 1..Len(questionsText[1].v) :
                                  questionsText[1].v[i] \notin {LF, ","})
             => Len(questionsArray[1]) <= 1
       /\ questionsText[1].v = <<"1", ".", SP, "What is X", LF,
                                 "2", ".", SP, "What is Y", LF>>
             => questionsArray[1] = <<<<"What is X">>, <<"What is Y">>>>

\* Two numbered lines of the same content, parsed to one question.
C8_Witness ==
    /\ pc[1] = "parsed"
    /\ questionsText[1] = Str(<<"1", ".", SP, "What is X", LF,
                                "2", ")", SP, "What is X", LF>>)
    /\ usedFallback[1]
    /\ questionsArray[1] = <<<<"What is X">>>>

\* C9: the techstack of a stored record is the body's techstack split at
\* its commas and trimmed piece by piece when it is a string, its elements
\* as trimmed strings in the same order when it is an array, and the empty
\* list for any other value.
CommaPositions(v) == {i \in 1..Len(v) : v[i] = ","}

\* The position of the k-th comma of v; 0 before the first piece, Len(v) + 1
\* after the last.
CommaPosition(v, k) ==
    IF k = 0 THEN 0
    ELSE IF k > Cardinality(CommaPositions(v)) THEN Len(v) + 1
    ELSE CHOOSE i \in CommaPositions(v) :
             Cardinality({j \in CommaPositions(v) : j <= i}) = k

SplitAndTrimmed(v, got) ==
    /\ Len(got) = Cardinality(CommaPositions(v)) + 1
    /\ \A k \in 1..Len(got) :
          got[k] = Trim(SubSeq(v, CommaPosition(v, k - 1) + 1, CommaPosition(v, k) - 1))

TechstackStored(value, got) ==
    /\ value.t = "str" => SplitAndTrimmed(value.v, got)
    /\ value.t = "arr"
          => /\ Len(got) = Len(value.v)
             /\ \A i \in 1..Len(got) : got[i] = Trim(JsString(value.v[i]))
    /\ value.t \notin {"str", "arr"} => got = <<>>
    /\ value = Str(<<"Go", ",", "Rust">>) => got = <<<<"Go">>, <<"Rust">>>>

C9_TechstackStored ==
    \A r \in Requests :
        Inserted(r) => TechstackStored(Field(body[r], "techstack"), RecordOf(r).techstack)

\* A record stored for the techstack " Go ,Rust  ", trimmed to Go and Rust.
C9_Witness ==
    \E r \in Requests :
        /\ Inserted(r)
        /\ Field(body[r], "techstack") = Str(<<SP, "Go", SP, ",", "Rust", SP, SP>>)
        /\ RecordOf(r).techstack = <<<<"Go">>, <<"Rust">>>>

\* C10: in every interleaving each request calls the model at most once and
\* the store at most once, the store only after its model call gave a
\* non-empty list; a request has a record in the collection exactly when it
\* answers 200; the collection holds one record for each request whose add
\* was committed, duplicates of a submission included, and every record has
\* a non-empty list of questions and finalized = TRUE.
Committed == {r \in Requests : pc[r] = "stored" \/ response[r].status = 200}

C10_OneCallOneRecord ==
    /\ \A r \in Requests :
          /\ calls[r].llm <= 1
          /\ calls[r].add <= 1
          /\ Cardinality({i \in 1..Len(store) : store[i].id = r}) <= 1
          /\ calls[r].add = 1
                => calls[r].llm = 1 /\ llm[r] # NoReply /\ questionsArray[r] # <<>>
          /\ Inserted(r) => calls[r].add = 1
          /\ response[r].status = 200 => Inserted(r)
          /\ (pc[r] = "done" /\ Inserted(r)) => response[r].status = 200
    /\ Len(store) = Cardinality(Committed)
    /\ \A i \in 1..Len(store) :
          store[i].data.questions # <<>> /\ store[i].data.finalized = TRUE

\* Two requests with the same body and headers, both answered 200, and two
\* records of the same data in the collection.
C10_Witness ==
    \E r1, r2 \in Requests :
        /\ r1 # r2
        /\ request[r1] = request[r2]
        /\ response[r1].status = 200
        /\ response[r2].status = 200
        /\ Len(store) = 2
        /\ store[1].data = store[2].data
====
